---- MODULE Spec2Model ----
(***************************************************************************)
(* BiquadFilter and Oversampler of src/BiquadFilter.hpp, with the host     *)
(* patch of src/OversamplerPatch.hpp.                                      *)
(*                                                                         *)
(* Samples and coefficients are C floats.  They are represented here in    *)
(* fixed point: a coefficient k stands for k / Scale, a sample is an       *)
(* integer, and one biquad accumulation is rounded once.  Whenever all     *)
(* coefficients are multiples of Scale the arithmetic is exact.            *)
(***************************************************************************)
EXTENDS Integers, Sequences, FiniteSets, TLC

VARIABLES
    phase,      \* "new" (no BiquadFilter yet), "live", or, after undefined
                \* behaviour, "crashed" or "undefined"
    filt,       \* the stand-alone BiquadFilter object
    fout,       \* buffer returned by the last BiquadFilter::process call
    hist,       \* samples given to process since the last setCoefficents
    outs,       \* samples produced by process since the last setCoefficents
    last,       \* what the last BiquadFilter operation was and found
    calls,      \* number of BiquadFilter operations so far
    os,         \* the Oversampler object
    buf,        \* the host's sample buffer (AudioBuffer channel 0)
    ret,        \* which buffer the last Oversampler call returned
    stuffed,    \* the last upsample call: its source, size, and the scratch buffer
                \* as it stood after the stuffing loop, before the up filter
    touched,    \* scratch indices (C, 0-based) read or written by the last call
    lastOs,     \* the last Oversampler call: its name, size and what it found
    oscalls,    \* number of upsample/downsample calls so far
    dcin,       \* the constant fed by the DC experiment (0: no experiment)
    blocks      \* blocks processed by the DC experiment

vars == <<phase, filt, fout, hist, outs, last, calls,
          os, buf, ret, stuffed, touched, lastOs, oscalls, dcin, blocks>>

filterVars == <<phase, filt, fout, hist, outs, last, calls>>
osVars == <<os, buf, ret, stuffed, touched, lastOs, oscalls>>
dcVars == <<dcin, blocks>>

-----------------------------------------------------------------------------
(* Bounds of the model *)

MaxBlock == 2
MaxCalls == 5
MaxBlockSize == 2
MaxOsCalls == 3
FlushBlocks == 24

(* Resolution of the fixed-point representation of float *)
Scale == 10000

(* Oversampling factor: the literal 4 of upsample/downsample, sz<<2 *)
L == 4

GarbageVals == {0, 77}
DCVals == {10000, 30000}

-----------------------------------------------------------------------------
(* Helpers *)

Max0(n) == IF n > 0 THEN n ELSE 0
Abs(n) == IF n < 0 THEN -n ELSE n
Fill(n, v) == [i \in 1..Max0(n) |-> v]
Zeros(n) == Fill(n, 0)
Ramp(n, a, d) == [i \in 1..Max0(n) |-> a + (i - 1) * d]

(* Sample blocks of length k: two signals whose samples all differ *)
Signals(k) == {Ramp(k, 1000, -4000), Ramp(k, -3000, 1000)}

-----------------------------------------------------------------------------
(* arm_biquad_cascade_df1_f32 / arm_biquad_cascade_df1_init_f32            *)

(* One accumulation: acc = b0*Xn + b1*Xn1 + b2*Xn2 + a1*Yn1 + a2*Yn2, where *)
(* a1, a2 are the stored fourth and fifth coefficients.                     *)
Acc(c, x, s) ==
    (c[1] * x + c[2] * s[1] + c[3] * s[2] + c[4] * s[3] + c[5] * s[4]) \div Scale

(* The sample loop of one stage: state {x[n-1], x[n-2], y[n-1], y[n-2]}.    *)
RECURSIVE SampleLoop(_, _, _, _, _)
SampleLoop(c, s, in, i, out) ==
    IF i > Len(in) THEN [state |-> s, out |-> out]
    ELSE LET x == in[i]
             acc == Acc(c, x, s)
         IN SampleLoop(c, <<x, s[1], acc, s[3]>>, in, i + 1, Append(out, acc))

(* Coefficient layout read back to front: the last stage's five values first *)
StageCoeffs_Reversed(coeffs, stage) ==
    SubSeq(coeffs, Len(coeffs) - 5 * stage + 1, Len(coeffs) - 5 * (stage - 1))

(* {b10, b11, b12, a11, a12, b20, b21, b22, a21, a22, ...} *)
StageCoeffs(coeffs, stage) == SubSeq(coeffs, 5 * (stage - 1) + 1, 5 * stage)
StageState(state, stage) == SubSeq(state, 4 * (stage - 1) + 1, 4 * stage)
PutStageState(state, stage, s) ==
    [i \in 1..Len(state) |->
        IF i > 4 * (stage - 1) /\ i <= 4 * stage THEN s[i - 4 * (stage - 1)]
        ELSE state[i]]

(* The stage loop: every stage filters the whole block, the next stage      *)
(* filters that stage's output in place; state is written back per stage.   *)
RECURSIVE StageLoop(_, _, _, _, _)
StageLoop(numStages, coeffs, state, in, stage) ==
    IF stage > numStages THEN [state |-> state, out |-> in]
    ELSE LET r == SampleLoop(StageCoeffs(coeffs, stage),
                             StageState(state, stage), in, 1, <<>>)
         IN StageLoop(numStages, coeffs,
                      PutStageState(state, stage, r.state), r.out, stage + 1)

arm_biquad_cascade_df1_f32(df1, state, in) ==
    StageLoop(df1.numStages, df1.pCoeffs, state, in, 1)

(* init stores the stage count and the two pointers and clears the state.   *)
arm_biquad_cascade_df1_init_f32(numStages, coeffs, state) ==
    [df1 |-> [init |-> TRUE, numStages |-> numStages, pCoeffs |-> coeffs],
     state |-> Zeros(4 * numStages)]

-----------------------------------------------------------------------------
(* class BiquadFilter *)

NULL == <<>>
Uninit == [init |-> FALSE, numStages |-> 0, pCoeffs |-> <<>>]

(* init(s): malloc leaves the state storage uninitialised (g).              *)
BiquadInit(s, g) ==
    [stages |-> s, coefficients |-> NULL, state |-> Fill(4 * s, g), df1 |-> Uninit]

(* setCoefficents that binds the coefficients but leaves the history alone   *)
BiquadSetCoefficents_KeepState(f, coeffs) ==
    [f EXCEPT !.coefficients = coeffs,
              !.df1 = [init |-> TRUE, numStages |-> f.stages, pCoeffs |-> coeffs]]

(* setCoefficents(coeffs) *)
BiquadSetCoefficents(f, coeffs) ==
    LET r == arm_biquad_cascade_df1_init_f32(f.stages, coeffs, f.state)
    IN [f EXCEPT !.coefficients = coeffs, !.df1 = r.df1, !.state = r.state]

(* process that filters every block from a cleared history                   *)
BiquadProcess_FreshState(f, in) ==
    LET r == arm_biquad_cascade_df1_f32(f.df1, Zeros(4 * f.stages), in)
    IN [f |-> [f EXCEPT !.state = r.state], out |-> r.out]

(* process(buf, size), in place: the new filter and the buffer contents.    *)
BiquadProcess(f, in) ==
    LET r == arm_biquad_cascade_df1_f32(f.df1, f.state, in)
    IN [f |-> [f EXCEPT !.state = r.state], out |-> r.out]

-----------------------------------------------------------------------------
(* The stand-alone filter and its caller *)

StageArgs == {-1, 0, 1, 2}

(* Caller-owned coefficient sets, five values per stage *)
CoeffA == <<Scale \div 2, Scale, 0, Scale \div 2, 0>>
CoeffB == <<Scale, 0, -Scale, 0, Scale \div 2>>
StageChoices == {CoeffA, CoeffB}
RECURSIVE CoeffSets(_)
CoeffSets(n) ==
    IF n <= 0 THEN {<<>>}
    ELSE {a \o b : a \in StageChoices, b \in CoeffSets(n - 1)}

Blocks == UNION {Signals(k) \cup {Zeros(k)} : k \in 0..MaxBlock}

NoFilter == [stages |-> 0, coefficients |-> NULL, state |-> <<>>, df1 |-> Uninit]
NoOp == [op |-> "none", df1init |-> FALSE, ran |-> FALSE, pre |-> <<>>,
         in |-> <<>>, nproc |-> 0]

(* BiquadFilter(int stages): init(stages); nothing is checked or rejected.  *)
Construct(s, g) ==
    /\ phase = "new"
    /\ phase' = "live"
    /\ filt' = BiquadInit(s, g)
    /\ last' = [NoOp EXCEPT !.op = "construct"]
    /\ calls' = calls + 1
    /\ UNCHANGED <<fout, hist, outs, osVars, dcVars>>

(* setCoefficents(coeffs).  On a filter whose stage count is negative it    *)
(* clears storage that malloc never provided: undefined behaviour, after    *)
(* which the program has crashed or is in an undefined state.               *)
SetCoefficents(c) ==
    /\ phase = "live"
    /\ calls < MaxCalls
    /\ calls' = calls + 1
    /\ last' = [op |-> "setCoefficents", df1init |-> filt.df1.init, ran |-> TRUE,
                pre |-> filt.state, in |-> <<>>, nproc |-> 0]
    /\ \/ /\ filt.stages >= 0
          /\ filt' = BiquadSetCoefficents(filt, c)
          /\ phase' = phase
       \/ /\ filt.stages < 0
          /\ phase' \in {"crashed", "undefined"}
          /\ filt' = filt
    /\ hist' = <<>>
    /\ outs' = <<>>
    /\ UNCHANGED <<fout, osVars, dcVars>>

(* Whether process runs the cascade on an initialised instance that has at  *)
(* least one stage; otherwise it reads unbound or missing storage.          *)
Defined(f) == f.df1.init /\ f.stages >= 1

(* process(buf, size).  Nothing guards the call: on an instance that        *)
(* setCoefficents never initialised, or that has no stage, the cascade      *)
(* routine runs on indeterminate data and the buffer ends up with anything. *)
Process(in) ==
    /\ phase = "live"
    /\ calls < MaxCalls
    /\ calls' = calls + 1
    /\ last' = [op |-> "process", df1init |-> filt.df1.init, ran |-> TRUE,
                pre |-> filt.state, in |-> in,
                nproc |-> IF last.op = "construct" THEN 1 ELSE last.nproc + 1]
    /\ \/ /\ Defined(filt)
          /\ \E r \in {BiquadProcess(filt, in)} :
                /\ filt' = r.f
                /\ fout' = r.out
                /\ hist' = hist \o in
                /\ outs' = outs \o r.out
          /\ phase' = phase
       \/ /\ ~Defined(filt)
          /\ \/ phase' = "crashed" /\ fout' = fout
             \/ phase' = "undefined" /\ \E g \in GarbageVals : fout' = Fill(Len(in), g)
          /\ UNCHANGED <<filt, hist, outs>>
    /\ UNCHANGED <<osVars, dcVars>>

DoConstruct == \E s \in StageArgs, g \in GarbageVals : Construct(s, g)
DoSetCoefficents == \E c \in CoeffSets(filt.stages) : SetCoefficents(c)
DoProcess == \E in \in Blocks : Process(in)

NextFilter == DoConstruct \/ DoSetCoefficents \/ DoProcess

NoOversampler == [blocksize |-> 0, upfilter |-> NoFilter, downfilter |-> NoFilter,
                  oversampled |-> <<>>]

InitFilter ==
    /\ phase = "new"
    /\ filt = NoFilter
    /\ fout = <<>>
    /\ hist = <<>>
    /\ outs = <<>>
    /\ last = NoOp
    /\ calls = 0
    /\ os = NoOversampler
    /\ buf = <<>>
    /\ ret = "none"
    /\ stuffed = <<>>
    /\ touched = {}
    /\ lastOs = "none"
    /\ oscalls = 0
    /\ dcin = 0
    /\ blocks = 0

SpecFilter == InitFilter /\ [][NextFilter]_vars

-----------------------------------------------------------------------------
(* Properties of the stand-alone filter *)

NonZero(q) == \E i \in 1..Len(q) : q[i] # 0

(* C1: Reset-on-install.  Right after setCoefficents, whatever was processed *)
(* before, all 4*stages state scalars are zero, an all-zero block of any     *)
(* length filters to an all-zero block, and the first block actually         *)
(* processed after an install, if all zero, comes out all zero.              *)
C1_ResetOnInstall ==
    /\ (phase = "live" /\ last.op = "setCoefficents") =>
          /\ filt.state = Zeros(4 * filt.stages)
          /\ filt.stages >= 1 =>
                \A n \in 0..(MaxBlock + 1) :
                    BiquadProcess(filt, Zeros(n)).out = Zeros(n)
    /\ (phase = "live" /\ last.op = "process" /\ Defined(filt)
          /\ last.nproc = 1 /\ ~NonZero(last.in)) =>
          /\ fout = Zeros(Len(last.in))
          /\ filt.state = Zeros(4 * filt.stages)

(* A re-install that found a history left by earlier process calls *)
C1_Witness ==
    /\ phase = "live"
    /\ last.op = "setCoefficents"
    /\ last.df1init
    /\ filt.stages = 2
    /\ NonZero(last.pre)

(* C2: Streaming continuity.  The outputs of all process calls since the     *)
(* last install, concatenated, and the state they leave, are those of one    *)
(* process call over the concatenated inputs on a freshly installed filter.  *)
C2_StreamingContinuity ==
    (phase = "live" /\ Defined(filt)) =>
        LET one == arm_biquad_cascade_df1_f32(filt.df1, Zeros(4 * filt.stages), hist)
        IN /\ outs = one.out
           /\ filt.state = one.state

(* Two non-empty blocks processed in a row, the second with history *)
C2_Witness ==
    /\ phase = "live"
    /\ Defined(filt)
    /\ last.op = "process"
    /\ last.nproc = 2
    /\ Len(last.in) > 0
    /\ Len(hist) > Len(last.in)
    /\ NonZero(last.pre)
    /\ NonZero(fout)

(* C3: Unready-filter guard.  process never runs the cascade routine on an  *)
(* instance that setCoefficents has not initialised.                        *)
C3_UnreadyGuarded ==
    (last.op = "process" /\ last.ran) => last.df1init

(* C4: a filter constructed with a stage count <= 0 never becomes a live    *)
(* object that setCoefficents or process can be called on.                  *)
C4_NonPositiveStagesRejected ==
    phase = "live" => filt.stages >= 1

(* The statement of C7: per sample, stage 1 then stage 2, each on its own   *)
(* history, each shifting its history once.                                 *)
RECURSIVE RefStages(_, _, _, _, _)
RefStages(coeffs, state, x, k, n) ==
    IF k > n THEN [state |-> state, y |-> x]
    ELSE LET b == 5 * (k - 1)
             h == 4 * (k - 1)
             y == (coeffs[b + 1] * x + coeffs[b + 2] * state[h + 1]
                   + coeffs[b + 3] * state[h + 2] + coeffs[b + 4] * state[h + 3]
                   + coeffs[b + 5] * state[h + 4]) \div Scale
             shifted == [state EXCEPT ![h + 1] = x, ![h + 2] = state[h + 1],
                                      ![h + 3] = y, ![h + 4] = state[h + 3]]
         IN RefStages(coeffs, shifted, y, k + 1, n)

RECURSIVE RefCascade(_, _, _, _, _, _)
RefCascade(coeffs, state, in, i, out, n) ==
    IF i > Len(in) THEN [state |-> state, out |-> out]
    ELSE LET r == RefStages(coeffs, state, in[i], 1, n)
         IN RefCascade(coeffs, r.state, in, i + 1, Append(out, r.y), n)

SwapStages(q, w) == SubSeq(q, w + 1, 2 * w) \o SubSeq(q, 1, w)

(* C7: Cascade ordering.  For a two-stage cascade, process returns, and     *)
(* leaves as state, what the per-sample stage-1-then-stage-2 recurrence     *)
(* gives from the same history.                                             *)
C7_CascadeOrdering ==
    (phase = "live" /\ last.op = "process" /\ Defined(filt) /\ filt.stages = 2) =>
        LET r == RefCascade(filt.coefficients, last.pre, last.in, 1, <<>>, 2)
        IN /\ fout = r.out
           /\ filt.state = r.state

(* Two distinct stages, a block of two samples on a non-zero history, and a *)
(* result that the reversed order would not have given.                     *)
C7_Witness ==
    /\ phase = "live"
    /\ last.op = "process"
    /\ Defined(filt)
    /\ filt.stages = 2
    /\ StageCoeffs(filt.coefficients, 1) # StageCoeffs(filt.coefficients, 2)
    /\ Len(last.in) = 2
    /\ NonZero(last.pre)
    /\ LET rev == RefCascade(SwapStages(filt.coefficients, 5),
                             SwapStages(last.pre, 4), last.in, 1, <<>>, 2)
       IN fout # rev.out

-----------------------------------------------------------------------------
(* class Oversampler *)

(* static float coeffs[10], in units of 1/Scale *)
coeffs == <<32, 45, 32, 15500, -8890,
            10000, 467, 10000, 16360, -7190>>

(* Scratch accesses by C index; an index past the allocation falls outside  *)
(* the buffer.                                                              *)
Rd(scr, p) == IF p >= 0 /\ p < Len(scr) THEN scr[p + 1] ELSE 0
Wr(scr, p, v) == IF p >= 0 /\ p < Len(scr) THEN [scr EXCEPT ![p + 1] = v] ELSE scr

(* Oversampler(blocksize): two two-stage filters bound to the same coeffs,  *)
(* and a scratch buffer of blocksize*4 floats that malloc leaves            *)
(* uninitialised (g).                                                       *)
Oversampler(blocksize, g) ==
    [blocksize |-> blocksize,
     upfilter |-> BiquadSetCoefficents(BiquadInit(2, g), coeffs),
     downfilter |-> BiquadSetCoefficents(BiquadInit(2, g), coeffs),
     oversampled |-> Fill(blocksize * 4, g)]

(* filter.process(oversampled, len): in place over the first len samples    *)
ProcessScratch(f, scr, len) ==
    LET r == BiquadProcess(f, [i \in 1..len |-> Rd(scr, i - 1)])
    IN [f |-> r.f,
        scr |-> IF len <= Len(scr) THEN r.out \o SubSeq(scr, len + 1, Len(scr))
                ELSE SubSeq(r.out, 1, Len(scr)),
        idx |-> 0..(len - 1)]

(* The stuffing loop of upsample: *p++ = buf[i]*4, then three zeros.        *)
RECURSIVE StuffLoop(_, _, _, _, _, _)
StuffLoop(scr, b, sz, i, p, idx) ==
    IF ~(i < sz) THEN [scr |-> scr, idx |-> idx]
    ELSE StuffLoop(Wr(Wr(Wr(Wr(scr, p, b[i + 1] * 4), p + 1, 0), p + 2, 0), p + 3, 0),
                   b, sz, i + 1, p + 4, idx \cup (p..(p + 3)))

(* upsample that runs the down filter over the stuffed block                *)
upsample_DownFilter(o, b, sz) ==
    LET st == StuffLoop(o.oversampled, b, sz, 0, 0, {})
        r == ProcessScratch(o.downfilter, st.scr, sz * 4)
    IN [os |-> [o EXCEPT !.downfilter = r.f, !.oversampled = r.scr],
        stuffed |-> st.scr, touched |-> st.idx \cup r.idx, ret |-> "oversampled"]

(* upsample that stuffs the samples without the compensating gain           *)
upsample_NoGain(o, b, sz) ==
    LET st == StuffLoop(o.oversampled, [i \in 1..Len(b) |-> b[i] \div 4], sz, 0, 0, {})
        r == ProcessScratch(o.upfilter, st.scr, sz * 4)
    IN [os |-> [o EXCEPT !.upfilter = r.f, !.oversampled = r.scr],
        stuffed |-> st.scr, touched |-> st.idx \cup r.idx, ret |-> "oversampled"]

(* upsample that filters sz<<3 samples                                      *)
upsample_LongFilter(o, b, sz) ==
    LET st == StuffLoop(o.oversampled, b, sz, 0, 0, {})
        r == ProcessScratch(o.upfilter, st.scr, sz * 8)
    IN [os |-> [o EXCEPT !.upfilter = r.f, !.oversampled = r.scr],
        stuffed |-> st.scr, touched |-> st.idx \cup r.idx, ret |-> "oversampled"]

(* upsample(buf, sz) *)
upsample(o, b, sz) ==
    LET st == StuffLoop(o.oversampled, b, sz, 0, 0, {})
        r == ProcessScratch(o.upfilter, st.scr, sz * 4)
    IN [os |-> [o EXCEPT !.upfilter = r.f, !.oversampled = r.scr],
        stuffed |-> st.scr, touched |-> st.idx \cup r.idx, ret |-> "oversampled"]

(* The decimation loop of downsample: buf[i] = *p; p += 4.                  *)
RECURSIVE DecimateLoop(_, _, _, _, _, _)
DecimateLoop(scr, b, sz, i, p, idx) ==
    IF ~(i < sz) THEN [buf |-> b, idx |-> idx]
    ELSE DecimateLoop(scr, [b EXCEPT ![i + 1] = Rd(scr, p)], sz, i + 1, p + 4,
                      idx \cup {p})

(* downsample that decimates the unfiltered scratch and filters afterwards  *)
downsample_DecimateFirst(o, b, sz) ==
    LET d == DecimateLoop(o.oversampled, b, sz, 0, 0, {})
        r == ProcessScratch(o.downfilter, o.oversampled, sz * 4)
    IN [os |-> [o EXCEPT !.downfilter = r.f, !.oversampled = r.scr],
        buf |-> d.buf, touched |-> r.idx \cup d.idx, ret |-> "buf"]

(* downsample(buf, sz) *)
downsample(o, b, sz) ==
    LET r == ProcessScratch(o.downfilter, o.oversampled, sz * 4)
        d == DecimateLoop(r.scr, b, sz, 0, 0, {})
    IN [os |-> [o EXCEPT !.downfilter = r.f, !.oversampled = r.scr],
        buf |-> d.buf, touched |-> r.idx \cup d.idx, ret |-> "buf"]

-----------------------------------------------------------------------------
(* The Oversampler and its host *)

HostBlocks(bs) == UNION {Signals(k) : k \in 1..bs}
NoStuff == [scr |-> <<>>, src |-> <<>>, n |-> 0]
NoCall == [op |-> "none", n |-> 0, pre |-> NoOversampler, preBuf |-> <<>>]

(* The host hands over buffer b and calls os.upsample(b, n).                *)
Upsample(b, n) ==
    /\ oscalls < MaxOsCalls
    /\ \E r \in {upsample(os, b, n)} :
          /\ os' = r.os
          /\ stuffed' = [scr |-> r.stuffed, src |-> b, n |-> n]
          /\ touched' = r.touched
          /\ ret' = r.ret
    /\ buf' = b
    /\ lastOs' = [op |-> "upsample", n |-> n, pre |-> os, preBuf |-> b]
    /\ oscalls' = oscalls + 1
    /\ UNCHANGED <<filterVars, dcVars>>

(* os.downsample(buf, n) on the host's current buffer                       *)
Downsample(n) ==
    /\ oscalls < MaxOsCalls
    /\ \E r \in {downsample(os, buf, n)} :
          /\ os' = r.os
          /\ buf' = r.buf
          /\ touched' = r.touched
          /\ ret' = r.ret
    /\ lastOs' = [op |-> "downsample", n |-> n, pre |-> os, preBuf |-> buf]
    /\ oscalls' = oscalls + 1
    /\ UNCHANGED <<stuffed, filterVars, dcVars>>

(* OversamplerPatch::processAudio(buffer), PARAMETER_A below 0.5: bypass,   *)
(* the buffer is not looked at.                                             *)
ProcessAudioBypass ==
    /\ lastOs' = [op |-> "bypass", n |-> 0, pre |-> os, preBuf |-> buf]
    /\ touched' = {}
    /\ UNCHANGED <<os, buf, ret, stuffed, oscalls, filterVars, dcVars>>

(* OversamplerPatch::processAudio(buffer), PARAMETER_A at least 0.5         *)
ProcessAudio(b) ==
    /\ oscalls + 2 <= MaxOsCalls
    /\ \E size \in {Len(b)} :
       \E u \in {upsample(os, b, size)} :
       \E d \in {downsample(u.os, b, size)} :
          /\ os' = d.os
          /\ buf' = d.buf
          /\ stuffed' = [scr |-> u.stuffed, src |-> b, n |-> size]
          /\ touched' = u.touched \cup d.touched
          /\ ret' = d.ret
          /\ lastOs' = [op |-> "downsample", n |-> size, pre |-> u.os, preBuf |-> b]
    /\ oscalls' = oscalls + 2
    /\ UNCHANGED <<filterVars, dcVars>>

DoUpsample == \E b \in HostBlocks(os.blocksize) : \E n \in 0..Len(b) : Upsample(b, n)
DoDownsample == \E n \in 0..Len(buf) : Downsample(n)
DoProcessAudio == \E b \in HostBlocks(os.blocksize) : ProcessAudio(b)

NextOs == DoUpsample \/ DoDownsample \/ DoProcessAudio \/ ProcessAudioBypass

InitOs ==
    /\ phase = "new"
    /\ filt = NoFilter
    /\ fout = <<>>
    /\ hist = <<>>
    /\ outs = <<>>
    /\ last = NoOp
    /\ calls = 0
    /\ \E bs \in 1..MaxBlockSize, g \in GarbageVals :
          /\ os = Oversampler(bs, g)
          /\ buf = Fill(bs, g)
    /\ ret = "none"
    /\ stuffed = NoStuff
    /\ touched = {}
    /\ lastOs = NoCall
    /\ oscalls = 0
    /\ dcin = 0
    /\ blocks = 0

SpecOs == InitOs /\ [][NextOs]_vars

-----------------------------------------------------------------------------
(* Properties of the Oversampler *)

(* C5: Zero-stuffing exactness.  After the stuffing loop of upsample(buf,  *)
(* n) and before the up filter runs, scratch position i*L holds buf[i]*L   *)
(* and positions i*L+1 .. i*L+L-1 hold 0, for every i in [0, n).           *)
C5_ZeroStuffing ==
    \A i \in 0..(stuffed.n - 1) :
        /\ Rd(stuffed.scr, i * L) = stuffed.src[i + 1] * L
        /\ \A k \in 1..(L - 1) : Rd(stuffed.scr, i * L + k) = 0

(* A full block stuffed over a scratch buffer that held other values *)
C5_Witness ==
    /\ stuffed.n = 2
    /\ lastOs.op = "upsample"
    /\ NonZero(lastOs.pre.oversampled)
    /\ \A i \in 1..stuffed.n : stuffed.src[i] # 0
    /\ stuffed.scr # os.oversampled

(* C6: upsample leaves the down filter as it was and downsample leaves the *)
(* up filter as it was; each advances only its own filter's state.         *)
C6_DisjointState ==
    /\ lastOs.op = "upsample" =>
          /\ os.downfilter = lastOs.pre.downfilter
          /\ os.upfilter.df1 = lastOs.pre.upfilter.df1
    /\ lastOs.op = "downsample" =>
          /\ os.upfilter = lastOs.pre.upfilter
          /\ os.downfilter.df1 = lastOs.pre.downfilter.df1
    /\ os.upfilter.coefficients = os.downfilter.coefficients

(* An upsample that moved the up filter while the down filter held history, *)
(* the two histories being different                                        *)
C6_Witness ==
    /\ lastOs.op = "upsample"
    /\ lastOs.n > 0
    /\ os.upfilter.state # lastOs.pre.upfilter.state
    /\ NonZero(os.downfilter.state)
    /\ os.upfilter.state # os.downfilter.state

(* C9: downsample(buf, n) filters the first n*L scratch samples in place   *)
(* with the down filter and then copies filtered sample i*L to buf[i] for  *)
(* i in [0, n); it returns buf and writes no buf[j] with j >= n.           *)
C9_FilterThenDecimate ==
    lastOs.op = "downsample" =>
        LET n == lastOs.n
            f == BiquadProcess(lastOs.pre.downfilter,
                               SubSeq(lastOs.pre.oversampled, 1, n * L))
        IN /\ SubSeq(os.oversampled, 1, n * L) = f.out
           /\ os.downfilter = f.f
           /\ \A i \in 0..(n - 1) : buf[i + 1] = f.out[i * L + 1]
           /\ Len(buf) = Len(lastOs.preBuf)
           /\ \A j \in (n + 1)..Len(buf) : buf[j] = lastOs.preBuf[j]
           /\ ret = "buf"

(* A downsample of fewer samples than the buffer holds, where filtering    *)
(* changed the samples that were decimated                                 *)
C9_Witness ==
    /\ lastOs.op = "downsample"
    /\ lastOs.n >= 1
    /\ lastOs.n < Len(buf)
    /\ buf[1] # Rd(lastOs.pre.oversampled, 0)
    /\ buf[1] # 0

(* C10: Scratch buffer bounds.  The scratch buffer keeps its capacity of   *)
(* blocksize*4, and a call of size n touches scratch indices in [0, n*4)   *)
(* only, all inside the capacity.                                          *)
C10_ScratchBounds ==
    /\ Len(os.oversampled) = os.blocksize * 4
    /\ lastOs.n <= os.blocksize
    /\ touched \subseteq 0..(lastOs.n * 4 - 1)
    /\ touched \subseteq 0..(Len(os.oversampled) - 1)

(* A call of the maximum size, which touches the last scratch index        *)
C10_Witness ==
    /\ lastOs.op # "none"
    /\ lastOs.n = os.blocksize
    /\ lastOs.n >= 2
    /\ (os.blocksize * 4 - 1) \in touched

-----------------------------------------------------------------------------
(* A constant input sustained over many blocks *)

DCBlock(k) ==
    /\ blocks < FlushBlocks + 2
    /\ \E b \in {Fill(k, dcin)} :
       \E u \in {upsample(os, b, k)} :
       \E d \in {downsample(u.os, b, k)} :
          /\ os' = d.os
          /\ buf' = d.buf
          /\ stuffed' = [scr |-> u.stuffed, src |-> b, n |-> k]
          /\ touched' = u.touched \cup d.touched
          /\ ret' = d.ret
          /\ lastOs' = [op |-> "downsample", n |-> k, pre |-> u.os, preBuf |-> b]
    /\ blocks' = blocks + 1
    /\ UNCHANGED <<oscalls, dcin, filterVars>>

NextDc == \E k \in 1..os.blocksize : DCBlock(k)

InitDc ==
    /\ phase = "new"
    /\ filt = NoFilter
    /\ fout = <<>>
    /\ hist = <<>>
    /\ outs = <<>>
    /\ last = NoOp
    /\ calls = 0
    /\ \E g \in GarbageVals :
          /\ os = Oversampler(MaxBlockSize, g)
          /\ buf = Fill(MaxBlockSize, g)
    /\ ret = "none"
    /\ stuffed = NoStuff
    /\ touched = {}
    /\ lastOs = NoCall
    /\ oscalls = 0
    /\ dcin \in DCVals
    /\ blocks = 0

SpecDc == InitDc /\ [][NextDc]_vars

(* C8: DC unity gain.  Once a constant input c has been sustained for      *)
(* FlushBlocks blocks, every sample that downsample(upsample(x)) returns   *)
(* is within five per cent of c.                                           *)
C8_DCUnityGain ==
    blocks >= FlushBlocks =>
        \A i \in 1..lastOs.n : 100 * Abs(buf[i] - dcin) <= 5 * dcin

====
